---- MODULE Spec2Model ----
(***************************************************************************)
(* Model of nefertari_es/fields.py: the field types layered on the         *)
(* elasticsearch_dsl field classes, their construction, coercion, empty    *)
(* value, clean step and mapping export, and the lazy resolution of a      *)
(* reference field's target class through the document registry.           *)
(***************************************************************************)
EXTENDS Integers, Sequences, FiniteSets, TLC

(* ------------------------------ bounds --------------------------------- *)
MaxInt == 2
MaxDay == 2
MaxHour == 1
MaxMinute == 1

(* --------------------------- python values ----------------------------- *)
PyNone == [k |-> "None"]
PyInt(n) == [k |-> "int", n |-> n]
PyBool(b) == [k |-> "bool", b |-> b]
PyStr(s) == [k |-> "str", s |-> s]
PyTimedelta(n) == [k |-> "timedelta", seconds |-> n]
PyDatetime(d, h, m) == [k |-> "datetime", day |-> d, hour |-> h, minute |-> m]
PyTime(h, m) == [k |-> "time", hour |-> h, minute |-> m]
PyList(items) == [k |-> "list", items |-> items]
PyTuple(items) == [k |-> "tuple", items |-> items]
PyAttrList(items) == [k |-> "AttrList", items |-> items]
PyAttrDict(d) == [k |-> "AttrDict", d |-> d]
PyDoc(c) == [k |-> "doc", cls |-> c]
PyRaise(e, info) == [k |-> "raise", exc |-> e, info |-> info]

Raised(v) == "k" \in DOMAIN v /\ v.k = "raise"

Digit(c) == IF c = "1" THEN 1 ELSE 0
IsDigit(c) == c \in {"0", "1"}
(* The strings tried: the empty one, days, times, and ones no parser takes. *)
Strings ==
    {<<>>, <<"0">>, <<"1">>, <<":">>, <<"1", ":">>, <<":", "1">>, <<"1", "1">>,
     <<":", ":", "1">>}
        \cup {<<h, ":", m>> : h \in {"0", "1"}, m \in {"0", "1"}}

Datetimes == {PyDatetime(d, h, m) : d \in 1..MaxDay, h \in 0..MaxHour, m \in 0..MaxMinute}
Times == {PyTime(h, m) : h \in 0..MaxHour, m \in 0..MaxMinute}
Timedeltas == {PyTimedelta(n) : n \in (0 - 1)..MaxInt}
Ints == {PyInt(n) : n \in (0 - 1)..MaxInt}
Bools == {PyBool(b) : b \in BOOLEAN}
Strs == {PyStr(s) : s \in Strings}
Midnight == PyTime(0, 0)

(* bool(data): Python truthiness.  A time at midnight is false on           *)
(* interpreters older than 3.5 and true on later ones.                      *)
Truthy(data, midnightFalse) ==
    CASE data.k = "None" -> FALSE
      [] data.k = "int" -> data.n # 0
      [] data.k = "bool" -> data.b
      [] data.k = "str" -> Len(data.s) > 0
      [] data.k = "timedelta" -> data.seconds # 0
      [] data.k = "time" -> ~(midnightFalse /\ data = Midnight)
      [] data.k \in {"list", "tuple", "AttrList"} -> Len(data.items) > 0
      [] data.k = "AttrDict" -> DOMAIN data.d # {}
      [] OTHER -> TRUE

(* dateutil.parser.parse: "h:m" is a time of the default day, a lone        *)
(* number a day of the month at 00:00, anything else (the empty string, a   *)
(* day 0, a value that is no string) is an error.                           *)
ParseError(data) == [k |-> "ParseError", of |-> data]
parse(data) ==
    IF data.k # "str" THEN PyRaise("ParseError", ParseError(data))
    ELSE LET s == data.s
             Today == 1 IN
         IF Len(s) = 3 /\ IsDigit(s[1]) /\ s[2] = ":" /\ IsDigit(s[3])
             /\ Digit(s[1]) <= MaxHour /\ Digit(s[3]) <= MaxMinute
         THEN PyDatetime(Today, Digit(s[1]), Digit(s[3]))
         ELSE IF Len(s) = 1 /\ IsDigit(s[1]) /\ Digit(s[1]) >= 1 /\ Digit(s[1]) <= MaxDay
         THEN PyDatetime(Digit(s[1]), 0, 0)
         ELSE PyRaise("ParseError", ParseError(data))
Parseable(data) == ~Raised(parse(data))

(* datetime.datetime.time() *)
TimeOf(dt) == PyTime(dt.hour, dt.minute)

ValidationException(what, data, e) ==
    PyRaise("ValidationException", [what |-> what, value |-> data, cause |-> e])

(* elasticsearch_dsl Field._to_python: the base coercion does nothing.      *)
Field_to_python(data) == data

IsInstanceInt(data) == data.k \in {"int", "bool"}
IntValue(data) == IF data.k = "bool" THEN (IF data.b THEN 1 ELSE 0) ELSE data.n

IntervalField_to_python(data) ==
    IF IsInstanceInt(data) THEN PyTimedelta(IntValue(data))
    ELSE Field_to_python(data)

(* DateTimeField._to_python without the try/except around the parser. *)
DateTimeField_to_python_unwrapped(data, midnightFalse) ==
    IF ~Truthy(data, midnightFalse) THEN PyNone
    ELSE IF data.k = "datetime" THEN data
    ELSE parse(data)

DateTimeField_to_python(data, midnightFalse) ==
    IF ~Truthy(data, midnightFalse) THEN PyNone
    ELSE IF data.k = "datetime" THEN data
    ELSE LET r == parse(data) IN
         IF Raised(r) THEN ValidationException("datetime", data, r.info) ELSE r

TimeField_to_python(data, midnightFalse) ==
    IF ~Truthy(data, midnightFalse) THEN PyNone
    ELSE IF data.k = "time" THEN data
    ELSE IF data.k = "datetime" THEN TimeOf(data)
    ELSE LET r == parse(data) IN
         IF Raised(r) THEN ValidationException("time", data, r.info) ELSE TimeOf(r)

(* ------------------------- keyword arguments --------------------------- *)
(* Option names are character sequences, so that the prefix test and the   *)
(* slice of ReferenceField.__init__ are computed as the code computes them. *)
kPrimaryKey == <<"p", "r", "i", "m", "a", "r", "y", "_", "k", "e", "y">>
kRequired == <<"r", "e", "q", "u", "i", "r", "e", "d">>
kMulti == <<"m", "u", "l", "t", "i">>
kEnabled == <<"e", "n", "a", "b", "l", "e", "d">>
kType == <<"t", "y", "p", "e">>
kFormat == <<"f", "o", "r", "m", "a", "t">>
kName == <<"n", "a", "m", "e">>
kIsBackref == <<"i", "s", "_", "b", "a", "c", "k", "r", "e", "f">>
kBackref == <<"b", "a", "c", "k", "r", "e", "f">>
backref_prefix == <<"b", "a", "c", "k", "r", "e", "f", "_">>
kBackrefName == backref_prefix \o kName
kBackrefRequired == backref_prefix \o kRequired
kUselist == <<"u", "s", "e", "l", "i", "s", "t">>
kNested == <<"n", "e", "s", "t", "e", "d">>

EmptyDict == [x \in {} |-> x]
Get(d, key, default) == IF key \in DOMAIN d THEN d[key] ELSE default
Without(d, keys) == [x \in DOMAIN d \ keys |-> d[x]]
Update(d, m) == [x \in DOMAIN d \cup DOMAIN m |-> IF x \in DOMAIN m THEN m[x] ELSE d[x]]

KeyDom(key) ==
    IF key \in {kPrimaryKey, kRequired, kMulti, kIsBackref, kUselist, kNested}
    THEN BOOLEAN
    ELSE IF key \in {kEnabled, kBackrefRequired} THEN {TRUE}
    ELSE IF key = kBackrefName THEN {"authored_posts"}
    ELSE {"x"}

RECURSIVE Kwargs(_)
Kwargs(keys) ==
    IF keys = {} THEN {EmptyDict}
    ELSE LET key == CHOOSE x \in keys : TRUE
             rest == Kwargs(keys \ {key})
         IN rest \cup {(key :> v) @@ d : v \in KeyDom(key), d \in rest}

(* ------------------------------ classes -------------------------------- *)
PlainClasses ==
    {"IntegerField", "SmallIntegerField", "StringField", "TextField", "UnicodeField",
     "UnicodeTextField", "BigIntegerField", "BooleanField", "FloatField", "BinaryField",
     "DecimalField"}
MixinClasses ==
    PlainClasses \cup {"IntervalField", "DictField", "DateTimeField", "DateField", "TimeField"}
CoercingClasses == {"IntervalField", "DateTimeField", "TimeField"}
FieldClasses == MixinClasses \cup {"IdField", "ReferenceField"}

(* The elasticsearch_dsl class each field class is built on. *)
BaseOf(cls) ==
    CASE cls \in {"IdField", "StringField", "TextField", "UnicodeField", "UnicodeTextField",
                  "ReferenceField"} -> "String"
      [] cls \in {"IntervalField", "IntegerField", "SmallIntegerField"} -> "Integer"
      [] cls = "DictField" -> "Object"
      [] cls \in {"DateTimeField", "TimeField"} -> "Field"
      [] cls = "DateField" -> "Date"
      [] cls = "BigIntegerField" -> "Long"
      [] cls = "BooleanField" -> "Boolean"
      [] cls = "FloatField" -> "Float"
      [] cls = "BinaryField" -> "Byte"
      [] cls = "DecimalField" -> "Double"

(* The `name` attribute of the elasticsearch_dsl base classes. *)
BaseName(base) ==
    CASE base = "String" -> "string"
      [] base = "Integer" -> "integer"
      [] base = "Object" -> "object"
      [] base = "Date" -> "date"
      [] base = "Long" -> "long"
      [] base = "Boolean" -> "boolean"
      [] base = "Float" -> "float"
      [] base = "Byte" -> "byte"
      [] base = "Double" -> "double"
      [] OTHER -> "None"

(* The `name` attribute of a field class: its own, else the inherited one. *)
NameOf(cls) ==
    CASE cls = "IdField" -> "idfield"
      [] cls = "DictField" -> "dict"
      [] cls = "DateTimeField" -> "datetime"
      [] cls = "TimeField" -> "time"
      [] OTHER -> BaseName(BaseOf(cls))

NoMapping == [isNone |-> TRUE, d |-> EmptyDict]
Mapping(d) == [isNone |-> FALSE, d |-> d]
(* The class attribute _custom_mapping of every class; None where a class   *)
(* sets none or does not have the mixin.                                    *)
CustomMappingOf(cls) ==
    CASE cls = "IdField" -> Mapping((kType :> "string"))
      [] cls = "DictField" -> Mapping((kType :> "object") @@ (kEnabled :> FALSE))
      [] cls \in {"DateTimeField", "DateField"} ->
             Mapping((kType :> "date") @@ (kFormat :> "dateOptionalTime"))
      [] cls = "TimeField" -> Mapping((kType :> "date") @@ (kFormat :> "HH:mm:ss"))
      [] OTHER -> NoMapping
HasCustomMappingMixin(cls) ==
    cls \in {"IdField", "DictField", "DateTimeField", "DateField", "TimeField", "ReferenceField"}

(* ---------------------------- construction ----------------------------- *)
(* elasticsearch_dsl Field.__init__: pops multi and required; what is left  *)
(* becomes the parameters of the field.                                     *)
Field_init(self, kwargs) ==
    self @@ [_multi |-> Get(kwargs, kMulti, FALSE),
             _required |-> Get(kwargs, kRequired, FALSE),
             params |-> Without(kwargs, {kMulti, kRequired})]

(* BaseFieldMixin.__init__ with kwargs.setdefault('required', True). *)
BaseFieldMixin_init_setdefault(self, kwargs) ==
    LET pk == Get(kwargs, kPrimaryKey, FALSE)
        kw1 == Without(kwargs, {kPrimaryKey})
        kw2 == IF pk /\ kRequired \notin DOMAIN kw1
               THEN Update(kw1, (kRequired :> TRUE)) ELSE kw1
    IN Field_init(self @@ [_primary_key |-> pk], kw2)

BaseFieldMixin_init(self, kwargs) ==
    LET pk == Get(kwargs, kPrimaryKey, FALSE)
        kw1 == Without(kwargs, {kPrimaryKey})
        kw2 == IF pk THEN Update(kw1, (kRequired :> TRUE)) ELSE kw1
    IN Field_init(self @@ [_primary_key |-> pk], kw2)

(* IdField.__init__ without the final reset of _required. *)
IdField_init_keep_required(self, kwargs) ==
    BaseFieldMixin_init(self, Update(kwargs, (kPrimaryKey :> TRUE)))

IdField_init(self, kwargs) ==
    LET f == BaseFieldMixin_init(self, Update(kwargs, (kPrimaryKey :> TRUE)))
    IN [f EXCEPT !._required = FALSE]

(* Construction of any class that has BaseFieldMixin. *)
NewField(cls, kwargs) ==
    IF cls = "IdField" THEN IdField_init([cls |-> cls], kwargs)
    ELSE BaseFieldMixin_init([cls |-> cls], kwargs)

StartsWith(key, prefix) ==
    Len(key) >= Len(prefix) /\ SubSeq(key, 1, Len(prefix)) = prefix

(* --------------------------- the registry ------------------------------ *)
DocNames == {"User", "Post"}
DocClasses == {"ClsA", "ClsB"}
Unregistered == "unregistered"

(* meta.get_document_cls: the class registered under the name, else an      *)
(* error.  The names looked up are reported with the outcome.               *)
get_document_cls(reg, name) ==
    [value |-> IF reg[name] = Unregistered
               THEN PyRaise("LookupError", [name |-> name])
               ELSE [k |-> "class", cls |-> reg[name]],
     lookups |-> <<name>>]

(* A _doc_class setter that resolves the class when the name is stored. *)
doc_class_setter_eager(self, name, reg) ==
    LET r == get_document_cls(reg, name)
    IN [value |-> IF Raised(r.value) THEN r.value ELSE self @@ [_doc_class_name |-> name],
        lookups |-> r.lookups]

(* The _doc_class property: the setter stores the name, the getter looks    *)
(* it up.                                                                   *)
doc_class_setter(self, name, reg) ==
    [value |-> self @@ [_doc_class_name |-> name], lookups |-> <<>>]

doc_class_getter(self, reg) == get_document_cls(reg, self._doc_class_name)

(* --------------------------- ReferenceField ---------------------------- *)
ReferenceField_backref_kwargs(kwargs) ==
    LET prefix_len == Len(backref_prefix)
        prefixed == {key \in DOMAIN kwargs : StartsWith(key, backref_prefix)}
    IN [key \in {SubSeq(p, prefix_len + 1, Len(p)) : p \in prefixed} |->
            kwargs[backref_prefix \o key]]

(* ReferenceField.__init__ without the loop that deletes the prefixed keys. *)
ReferenceField_base_kwargs_kept(kwargs) == kwargs

(* What is left of kwargs after the loop that deletes the prefixed keys.    *)
ReferenceField_base_kwargs(kwargs) ==
    Without(kwargs, {backref_prefix \o key : key \in DOMAIN ReferenceField_backref_kwargs(kwargs)})

(* ReferenceField.__init__: the constructed field (or the error raised),    *)
(* the registry lookups made and the options handed to the base class.      *)
ReferenceField_init(doc_class, is_backref, kwargs, reg) ==
    LET self0 == [cls |-> "ReferenceField",
                  _backref_kwargs |-> ReferenceField_backref_kwargs(kwargs),
                  _is_backref |-> is_backref]
        set == doc_class_setter(self0, doc_class, reg)
        base_kwargs == ReferenceField_base_kwargs(kwargs)
    IN [value |-> IF Raised(set.value) THEN set.value
                  ELSE Field_init(set.value, base_kwargs),
        lookups |-> set.lookups,
        base_kwargs |-> base_kwargs]

(* Relationship(document_type, uselist, nested, kw): kw may carry           *)
(* is_backref, which binds to the parameter of ReferenceField.__init__.     *)
Relationship(document_type, uselist, nested, kw, reg) ==
    ReferenceField_init(document_type, Get(kw, kIsBackref, FALSE),
                        Update(Without(kw, {kIsBackref}), (kMulti :> uselist)), reg)

ReferenceField_backref_field_name(self) ==
    Get(self._backref_kwargs, kName, "None")

(* ---------------------------- empty values ----------------------------- *)
(* The _empty hook: IdField overrides it; the String base gives '', the     *)
(* other bases None.                                                        *)
IdField_empty(self) == PyNone
Base_empty(self) == IF BaseOf(self.cls) = "String" THEN PyStr(<<>>) ELSE PyNone
EmptyHook(self) == IF self.cls = "IdField" THEN IdField_empty(self) ELSE Base_empty(self)

(* elasticsearch_dsl Field.empty *)
Field_empty(self) == IF self._multi THEN PyAttrList(<<>>) ELSE EmptyHook(self)

(* ReferenceField.empty that always defers to the base class. *)
ReferenceField_empty_base_only(self) == Field_empty(self)

ReferenceField_empty(self) ==
    IF ~self._required
    THEN (IF self._multi THEN PyAttrList(<<>>) ELSE PyNone)
    ELSE Field_empty(self)

Empty(self) ==
    IF self.cls = "ReferenceField" THEN ReferenceField_empty(self) ELSE Field_empty(self)

(* -------------------------------- clean -------------------------------- *)
(* elasticsearch_dsl Field.clean for a String field: coercion leaves the    *)
(* value as it is, and a false value of a required field is an error.       *)
Field_clean(self, data, midnightFalse) ==
    IF ~Truthy(data, midnightFalse) /\ self._required
    THEN PyRaise("ValidationException", [what |-> "required"])
    ELSE data

(* isinstance(data, (doc_class,) + kinds) *)
IsInstance(data, doc_class, kinds) ==
    \/ data.k \in kinds
    \/ data.k = "doc" /\ data.cls = doc_class.cls

(* ReferenceField.clean without the early return for other values. *)
ReferenceField_clean_no_bypass(self, data, reg, midnightFalse) ==
    LET dc == doc_class_getter(self, reg)
    IN [value |-> IF Raised(dc.value) THEN dc.value
                  ELSE Field_clean(self, data, midnightFalse),
        lookups |-> dc.lookups]

ReferenceField_clean(self, data, reg, midnightFalse) ==
    LET dc == doc_class_getter(self, reg)
        kinds == {"list", "AttrDict", "AttrList"}
    IN [value |-> IF Raised(dc.value) THEN dc.value
                  ELSE IF ~IsInstance(data, dc.value, kinds) THEN data
                  ELSE Field_clean(self, data, midnightFalse),
        lookups |-> dc.lookups]

(* ------------------------------- export -------------------------------- *)
(* elasticsearch_dsl Field.to_dict: a new dictionary of the field's          *)
(* parameters with `type` set to the class's name.                          *)
Field_to_dict(self) == Update(self.params, (kType :> NameOf(self.cls)))

(* CustomMappingMixin.to_dict that updates the class-level fragment with    *)
(* the base export and returns the fragment.                               *)
CustomMappingMixin_to_dict_in_place(self, mapping) ==
    LET data == Field_to_dict(self)
    IN IF ~mapping.isNone
       THEN [data |-> Update(mapping.d, data), custom |-> Mapping(Update(mapping.d, data))]
       ELSE [data |-> data, custom |-> mapping]

(* CustomMappingMixin.to_dict: the export and the class-level fragment as   *)
(* the call leaves it.                                                      *)
CustomMappingMixin_to_dict(self, mapping) ==
    LET data == Field_to_dict(self)
    IN IF ~mapping.isNone
       THEN [data |-> Update(data, mapping.d), custom |-> mapping]
       ELSE [data |-> data, custom |-> mapping]

ToDict(self, mapping) ==
    IF HasCustomMappingMixin(self.cls) THEN CustomMappingMixin_to_dict(self, mapping)
    ELSE [data |-> Field_to_dict(self), custom |-> mapping]

(* ------------------------------ coercion ------------------------------- *)
ToPythonHook(self, data, midnightFalse) ==
    CASE self.cls = "IntervalField" -> IntervalField_to_python(data)
      [] self.cls = "DateTimeField" -> DateTimeField_to_python(data, midnightFalse)
      [] self.cls = "TimeField" -> TimeField_to_python(data, midnightFalse)
      [] OTHER -> Field_to_python(data)

(* The write direction: no class of the module nor its elasticsearch_dsl    *)
(* base converts a value on the way to storage.                             *)
Field_serialize(self, data) == data

(* ------------------------------- state --------------------------------- *)
VARIABLES
    midnightFalse,   \* the interpreter treats time(0, 0) as false (Python < 3.5)
    registry,        \* the document registry: name -> class or Unregistered
    custom_mapping,  \* the class attribute _custom_mapping of every class
    field,           \* the field constructed last
    last             \* the last operation, its inputs and its outcome

vars == <<midnightFalse, registry, custom_mapping, field, last>>

NoField == [cls |-> "none"]

ScalarKwargs == Kwargs({kPrimaryKey, kRequired, kEnabled}) \cup Kwargs({kPrimaryKey, kMulti})
ReferenceKwargs ==
    Kwargs({kRequired, kMulti, kBackrefName})
        \cup Kwargs({kBackrefName, kName, kBackref, kBackrefRequired})
RelationshipKw == Kwargs({kRequired, kIsBackref, kBackrefName})
RelationshipArgs == Kwargs({kUselist, kNested})

CoerceInputs ==
    {PyNone} \cup Ints \cup Bools \cup Strs \cup Datetimes \cup Times \cup Timedeltas
CleanInputs ==
    {PyNone, PyInt(0), PyInt(1), PyStr(<<>>), PyStr(<<"1">>), PyTuple(<<>>),
     PyList(<<>>), PyList(<<PyInt(1)>>), PyAttrList(<<>>), PyAttrList(<<PyInt(1)>>),
     PyAttrDict(EmptyDict), PyAttrDict((kName :> "x"))}
        \cup {PyDoc(c) : c \in DocClasses}

Init ==
    /\ midnightFalse \in BOOLEAN
    /\ registry = [n \in DocNames |-> Unregistered]
    /\ custom_mapping = [c \in FieldClasses |-> CustomMappingOf(c)]
    /\ field = NoField
    /\ last = [op |-> "init"]

(* Construction of a field of a class with BaseFieldMixin, IdField included. *)
Construct ==
    \E cls \in MixinClasses \cup {"IdField"}, kwargs \in ScalarKwargs :
        /\ field = NoField
        /\ field' = NewField(cls, kwargs)
        /\ last' = [op |-> "construct", cls |-> cls, kwargs |-> kwargs]
        /\ UNCHANGED <<midnightFalse, registry, custom_mapping>>

(* Construction of a ReferenceField from doc_class, is_backref and options. *)
ConstructReference ==
    \E doc \in DocNames, is_backref \in BOOLEAN, kwargs \in ReferenceKwargs :
        LET r == ReferenceField_init(doc, is_backref, kwargs, registry) IN
        /\ field = NoField
        /\ field' = IF Raised(r.value) THEN field ELSE r.value
        /\ last' = [op |-> "ReferenceField", doc_class |-> doc, is_backref |-> is_backref,
                    kwargs |-> kwargs, base_kwargs |-> r.base_kwargs,
                    result |-> r.value, lookups |-> r.lookups]
        /\ UNCHANGED <<midnightFalse, registry, custom_mapping>>

(* Relationship with document_type, uselist (True), nested (True) and options. *)
ConstructRelationship ==
    \E doc \in DocNames, args \in RelationshipArgs, kw \in RelationshipKw :
        LET uselist == Get(args, kUselist, TRUE)
            nested == Get(args, kNested, TRUE)
            r == Relationship(doc, uselist, nested, kw, registry) IN
        /\ field = NoField
        /\ field' = IF Raised(r.value) THEN field ELSE r.value
        /\ last' = [op |-> "Relationship", doc_class |-> doc, args |-> args,
                    uselist |-> uselist, nested |-> nested, kw |-> kw,
                    result |-> r.value, lookups |-> r.lookups]
        /\ UNCHANGED <<midnightFalse, registry, custom_mapping>>

(* A document class is registered under a name (again, possibly). *)
Register ==
    \E name \in DocNames, c \in DocClasses :
        /\ registry' = [registry EXCEPT ![name] = c]
        /\ last' = [op |-> "register", name |-> name, cls |-> c]
        /\ UNCHANGED <<midnightFalse, custom_mapping, field>>

(* field._doc_class *)
Resolve ==
    /\ field.cls = "ReferenceField"
    /\ LET r == doc_class_getter(field, registry) IN
       last' = [op |-> "resolve", result |-> r.value, lookups |-> r.lookups]
    /\ UNCHANGED <<midnightFalse, registry, custom_mapping, field>>

(* field.clean(data) of a reference field *)
Clean ==
    /\ field.cls = "ReferenceField"
    /\ \E data \in CleanInputs :
        LET r == ReferenceField_clean(field, data, registry, midnightFalse) IN
        last' = [op |-> "clean", data |-> data, result |-> r.value, lookups |-> r.lookups]
    /\ UNCHANGED <<midnightFalse, registry, custom_mapping, field>>

(* field.empty(), with what the _empty hook gives *)
EmptyValue ==
    /\ field # NoField
    /\ last' = [op |-> "empty", result |-> Empty(field), hook |-> EmptyHook(field)]
    /\ UNCHANGED <<midnightFalse, registry, custom_mapping, field>>

(* field._to_python(data), and the same applied to its result *)
ToPython ==
    /\ field.cls \in CoercingClasses
    /\ \E data \in CoerceInputs :
        LET r == ToPythonHook(field, data, midnightFalse) IN
        last' = [op |-> "to_python", data |-> data, result |-> r,
                 again |-> IF Raised(r) THEN r ELSE ToPythonHook(field, r, midnightFalse)]
    /\ UNCHANGED <<midnightFalse, registry, custom_mapping, field>>

(* The value just coerced is written back for storage. *)
Write ==
    /\ last.op = "to_python"
    /\ ~Raised(last.result)
    /\ last' = [op |-> "write", source |-> last.data, data |-> last.result,
                result |-> Field_serialize(field, last.result)]
    /\ UNCHANGED <<midnightFalse, registry, custom_mapping, field>>

(* field.to_dict() *)
Export ==
    /\ field # NoField
    /\ LET r == ToDict(field, custom_mapping[field.cls]) IN
        /\ last' = [op |-> "to_dict", base |-> Field_to_dict(field), result |-> r.data]
        /\ custom_mapping' = [custom_mapping EXCEPT ![field.cls] = r.custom]
    /\ UNCHANGED <<midnightFalse, registry, field>>

Next ==
    \/ Construct
    \/ ConstructReference
    \/ ConstructRelationship
    \/ Register
    \/ Resolve
    \/ Clean
    \/ EmptyValue
    \/ ToPython
    \/ Write
    \/ Export

Spec == Init /\ [][Next]_vars

(* The fields with BaseFieldMixin: construction, coercion, empty value and  *)
(* export.                                                                  *)
NextFields ==
    \/ Construct
    \/ EmptyValue
    \/ ToPython
    \/ Write
    \/ Export

SpecFields == Init /\ [][NextFields]_vars

(* The reference field and the registry. *)
NextRef ==
    \/ ConstructReference
    \/ ConstructRelationship
    \/ Register
    \/ Resolve
    \/ Clean
    \/ EmptyValue
    \/ Export

SpecRef == Init /\ [][NextRef]_vars

(* ------------------------------- claims -------------------------------- *)
PassedPrimaryKey == Get(last.kwargs, kPrimaryKey, FALSE)

(* C1: a field of any class with BaseFieldMixin other than IdField, built   *)
(* with primary_key true, is required, also when required=False was        *)
(* passed; built without primary_key (or with it false) its required flag  *)
(* is the one passed (False when none was).                                 *)
C1_PrimaryKeyForcesRequired ==
    (last.op = "construct" /\ last.cls \in MixinClasses) =>
        /\ PassedPrimaryKey => field._required = TRUE
        /\ ~PassedPrimaryKey => field._required = Get(last.kwargs, kRequired, FALSE)

C1_Witness ==
    /\ last.op = "construct"
    /\ last.cls = "DictField"
    /\ PassedPrimaryKey
    /\ kRequired \in DOMAIN last.kwargs
    /\ last.kwargs[kRequired] = FALSE
    /\ field._required = TRUE

(* C2: an IdField is never required and always the primary key, whatever    *)
(* options were passed, and its _empty hook gives None.                     *)
C2_IdFieldFlags ==
    /\ (last.op = "construct" /\ last.cls = "IdField") =>
           field._required = FALSE /\ field._primary_key = TRUE
    /\ (last.op = "empty" /\ field.cls = "IdField") => last.hook = PyNone

C2_Witness ==
    /\ last.op = "construct"
    /\ last.cls = "IdField"
    /\ kPrimaryKey \in DOMAIN last.kwargs
    /\ last.kwargs[kPrimaryKey] = FALSE
    /\ kRequired \in DOMAIN last.kwargs
    /\ last.kwargs[kRequired] = TRUE
    /\ field._required = FALSE
    /\ field._primary_key = TRUE

(* C3: _to_python returns a value already of the target type unchanged (a   *)
(* datetime for DateTimeField, a time for TimeField, midnight included, a   *)
(* timedelta for IntervalField), and coercing the result of a coercion      *)
(* that succeeded gives that result again.                                  *)
C3_CoercionIdempotent ==
    last.op = "to_python" =>
        /\ (field.cls = "DateTimeField" /\ last.data.k = "datetime") => last.result = last.data
        /\ (field.cls = "TimeField" /\ last.data.k = "time") => last.result = last.data
        /\ (field.cls = "IntervalField" /\ last.data.k = "timedelta") => last.result = last.data
        /\ ~Raised(last.result) => last.again = last.result

UnparseableString ==
    /\ last.op = "to_python"
    /\ field.cls \in {"DateTimeField", "TimeField"}
    /\ last.data.k = "str"
    /\ ~Parseable(last.data)

FailedWithParserError ==
    /\ Raised(last.result)
    /\ last.result.exc = "ValidationException"
    /\ last.result.info.value = last.data
    /\ last.result.info.cause = ParseError(last.data)

(* C4 as stated: for every string the parser cannot parse, datetime and     *)
(* time coercion fail with a ValidationException that carries the string    *)
(* and the parser's error.                                                  *)
C4_UnparseableStringFails == UnparseableString => FailedWithParserError

(* C4, amended: for every non-empty string the parser cannot parse,         *)
(* datetime and time coercion fail with a ValidationException that carries  *)
(* the string and the parser's error; for the empty string both return      *)
(* None.                                                                    *)
C4_UnparseableNonEmptyStringFails ==
    UnparseableString =>
        IF Len(last.data.s) = 0 THEN last.result = PyNone ELSE FailedWithParserError

C4_Witness ==
    /\ UnparseableString
    /\ field.cls = "TimeField"
    /\ last.data = PyStr(<<"1", ":">>)
    /\ FailedWithParserError

TargetName == field._doc_class_name
TargetRegistered == registry[TargetName] # Unregistered

(* C6: clean of a reference field whose target name is registered gives     *)
(* what the base clean gives (its errors included) for an instance of the   *)
(* target class, a list, an AttrDict or an AttrList, and gives any other    *)
(* value back as it is, without base validation, required or not.          *)
C6_CleanDelegatesOrBypasses ==
    (last.op = "clean" /\ TargetRegistered) =>
        LET delegates ==
                \/ last.data.k \in {"list", "AttrDict", "AttrList"}
                \/ last.data.k = "doc" /\ last.data.cls = registry[TargetName]
        IN IF delegates
           THEN last.result = Field_clean(field, last.data, midnightFalse)
           ELSE last.result = last.data

C6_Witness ==
    /\ last.op = "clean"
    /\ TargetRegistered
    /\ field._required
    /\ last.data = PyInt(0)
    /\ last.result = PyInt(0)

ConstructedReference == last.op \in {"ReferenceField", "Relationship"}

C7_State ==
    /\ ConstructedReference =>
           /\ last.lookups = <<>>
           /\ ~Raised(last.result)
           /\ field = last.result
           /\ TargetName = last.doc_class
    /\ last.op \in {"resolve", "clean"} => last.lookups = <<TargetName>>
    /\ last.op = "resolve" =>
           last.result = IF TargetRegistered
                         THEN [k |-> "class", cls |-> registry[TargetName]]
                         ELSE PyRaise("LookupError", [name |-> TargetName])
    /\ last.op = "clean" =>
           ((Raised(last.result) /\ last.result.exc = "LookupError") <=> ~TargetRegistered)

C7_Step ==
    last'.op \in {"resolve", "clean"} => (field' = field /\ registry' = registry)

(* C7: constructing a reference field looks nothing up in the registry and  *)
(* succeeds whether or not the target name is registered; every resolution  *)
(* of _doc_class, also through clean, looks the stored name up at that      *)
(* moment, gives the class registered under it then and fails with a        *)
(* lookup error exactly when the name is unregistered then; resolution      *)
(* changes neither the field nor the registry.                              *)
C7_LazyResolution == []C7_State /\ [][C7_Step]_vars

C7_Witness ==
    /\ last.op = "resolve"
    /\ last.result = [k |-> "class", cls |-> "ClsB"]
    /\ \E other \in DocNames : registry[other] = Unregistered

(* C8: empty() of a reference field that is not required is an empty        *)
(* AttrList when multi-valued and None when single-valued; of a required    *)
(* one it is what the base empty() gives.  A field built by Relationship    *)
(* is multi-valued as uselist says (True when not passed), and nested       *)
(* changes nothing of the field built.                                      *)
C8_ReferenceEmpty ==
    /\ (last.op = "empty" /\ field.cls = "ReferenceField") =>
           IF ~field._required
           THEN last.result = IF field._multi THEN PyAttrList(<<>>) ELSE PyNone
           ELSE last.result = Field_empty(field)
    /\ last.op = "Relationship" =>
           /\ field._multi = Get(last.args, kUselist, TRUE)
           /\ field = Relationship(last.doc_class, last.uselist, ~last.nested,
                                   last.kw, registry).value

C8_Witness ==
    /\ last.op = "empty"
    /\ field.cls = "ReferenceField"
    /\ ~field._required
    /\ ~field._multi
    /\ last.result = PyNone

(* C9: to_dict of a field with a custom mapping is the base export with     *)
(* the fragment merged in: every key of the base export is kept, every key  *)
(* of the fragment has the fragment's value, the other keys keep the base   *)
(* value, and the class-level fragment is left as it was.  A DictField      *)
(* exports type object and enabled false; a field whose custom mapping is   *)
(* None exports the base export.                                            *)
C9_ExportMergesFragment ==
    /\ custom_mapping = [c \in FieldClasses |-> CustomMappingOf(c)]
    /\ (last.op = "to_dict" /\ HasCustomMappingMixin(field.cls)) =>
           LET frag == CustomMappingOf(field.cls)
               fragKeys == IF frag.isNone THEN {} ELSE DOMAIN frag.d
           IN /\ DOMAIN last.base \subseteq DOMAIN last.result
              /\ \A key \in fragKeys :
                     key \in DOMAIN last.result /\ last.result[key] = frag.d[key]
              /\ \A key \in DOMAIN last.base \ fragKeys : last.result[key] = last.base[key]
              /\ frag.isNone => last.result = last.base
              /\ field.cls = "DictField" =>
                     last.result[kType] = "object" /\ last.result[kEnabled] = FALSE

C9_Witness ==
    /\ last.op = "to_dict"
    /\ field.cls = "DictField"
    /\ kEnabled \in DOMAIN last.base
    /\ last.base[kEnabled] = TRUE
    /\ last.result[kEnabled] = FALSE
    /\ last.result[kType] = "object"

HasBackrefPrefix(key) ==
    Len(key) >= 8 /\ SubSeq(key, 1, 8) = <<"b", "a", "c", "k", "r", "e", "f", "_">>

(* C10: the backref options of a ReferenceField are the options whose key   *)
(* starts with backref_, keyed by the rest of the key, values unchanged;    *)
(* no prefixed key reaches the base constructor and every other option      *)
(* reaches it unchanged.                                                    *)
C10_BackrefOptions ==
    last.op = "ReferenceField" =>
        LET kw == last.kwargs
            prefixed == {key \in DOMAIN kw : HasBackrefPrefix(key)}
        IN /\ DOMAIN field._backref_kwargs = {SubSeq(key, 9, Len(key)) : key \in prefixed}
           /\ \A key \in prefixed : field._backref_kwargs[SubSeq(key, 9, Len(key))] = kw[key]
           /\ DOMAIN last.base_kwargs = DOMAIN kw \ prefixed
           /\ \A key \in DOMAIN last.base_kwargs : last.base_kwargs[key] = kw[key]
           /\ kBackrefName \in DOMAIN kw =>
                  ReferenceField_backref_field_name(field) = kw[kBackrefName]

C10_Witness ==
    /\ last.op = "ReferenceField"
    /\ DOMAIN last.kwargs = {kBackrefName, kName}
    /\ last.kwargs[kBackrefName] = "authored_posts"
    /\ DOMAIN field._backref_kwargs = {kName}
    /\ field._backref_kwargs[kName] = "authored_posts"
    /\ DOMAIN last.base_kwargs = {kName}

====
